---- MODULE Spec2Model ----
(***************************************************************************)
(* Model of the event-log / streaming core of seneca:                      *)
(*   - SharedPipelineEvents   (src/processors/shared_pipeline_events.py)   *)
(*   - ConversationStreamProcessor + LogFileHandler                        *)
(*                            (src/processors/conversation_stream.py)      *)
(*   - PipelineReplayController (src/processors/pipeline_replay.py)        *)
(***************************************************************************)
EXTENDS Integers, Sequences, FiniteSets, TLC

(***************************************************************************)
(* Bounds of the model.                                                    *)
(***************************************************************************)
\* datetime.now() is read from a clock that advances up to MaxTime.
MaxTime == 1
\* The events list of the stored document is capped at MaxEvents entries.
MaxEvents == 3
\* Number of add_event calls each OS process issues in the shared scenario.
CallsPerProc == 2
\* The producer writes at most MaxLines lines to one log file.
MaxLines == 2
\* At most MaxHandlers registrations are held in event_handlers.
MaxHandlers == 2
\* Lines parsed beyond the capacity of the history, and the leading lines
\* that may parse to no event.
HistoryOverrun == 2

(***************************************************************************)
(* Input sets.                                                             *)
(***************************************************************************)
FlowIds == {"f1", "f2"}
ProjectNames == {"alpha"}
Procs == {"p1", "p2"}
Controllers == {"c1", "c2"}
\* The controller of the scenarios with a single one.
SoloControllers == {"c1"}
\* Socket.IO session ids (request.sid) of the clients.
Clients == {"s1", "s2"}

\* A key that a Python dict does not carry / a None value.
Absent == "absent"
NoTime == -1
NoId == <<>>

\* Event dicts handed to SharedPipelineEvents.add_event.  Every key is
\* optional; the callers in pipeline_manager / event_integrated_visualizer set
\* stage, event_type and (the latter) event_id.
PlainEvent ==
  [flow_id |-> Absent, timestamp |-> NoTime, event_id |-> NoId,
   stage |-> "task_generation", event_type |-> "tasks_generated"]
EventInputs ==
  { PlainEvent,
    [PlainEvent EXCEPT !.flow_id = "f2"] }

\* Event dicts appended to the flows that are replayed: one stamped by the
\* store, one that brings an older timestamp of its own.
ReplayEventInputs ==
  { PlainEvent,
    [PlainEvent EXCEPT !.timestamp = 0, !.event_type = "decision_point"] }

\* The flows that are replayed.
ReplayFlows == {"f1"}

\* Positions handed to seek_to.
SeekInputs == (0 - 1) .. (MaxEvents + 1)

\* clear_old_events(hours): the age limits tried (abstract time units).
HoursInputs == {0, 1}

\* Log files of the watched directory, in the order log_files.sort() gives.
LogFiles == {"conversations_a.jsonl", "realtime_b.jsonl"}
SortedLogFiles == <<"conversations_a.jsonl", "realtime_b.jsonl">>
\* What a line of a log file can hold: a JSON object that parses to an event
\* (its timestamp is ISO formatted, or missing and defaulted to now()), text
\* that is not JSON, or a JSON object whose timestamp is not ISO formatted.
LineKinds == {"event"}
DispatchLineKinds == {"event", "bad_json", "bad_timestamp"}
\* The log file that is written in the handler and stop scenarios.
StreamFile == "conversations_a.jsonl"

\* Two ConversationStreamProcessor instances that read the same file.
Instances == {"t1", "t2"}

\* A timestamp field that is not ISO formatted (NoTime: no timestamp field).
BadTime == -2

\* The parsed JSON object of a line; Absent is a key the object lacks.
PingLine ==
  [json |-> TRUE, timestamp |-> 0, type |-> "ping_request", event |-> Absent,
   source |-> Absent, target |-> Absent, message |-> Absent, echo |-> Absent]
\* The lines the static file is made of: a ping with a timestamp, a simple
\* event without one, a legacy entry whose event name no parser handles, an
\* entry with a timestamp that is not ISO formatted, and text that is not JSON.
StaticLines ==
  { PingLine,
    [PingLine EXCEPT !.timestamp = NoTime, !.type = "task_update",
                     !.source = "agentA", !.message = "hello"],
    [PingLine EXCEPT !.type = Absent, !.event = "unlisted"],
    [PingLine EXCEPT !.timestamp = BadTime, !.type = "task_update"],
    [PingLine EXCEPT !.json = FALSE] }

\* Callables handed to add_event_handler: one returns, one raises Exception.
HandlerIds == {"h_ok", "h_raises"}
RaisingHandlers == {"h_raises"}

\* ConversationStreamProcessor.max_history_size
MaxHistorySize == 1000

VARIABLES
  file,       \* content of PIPELINE_EVENTS_FILE
  now,        \* the wall clock read by datetime.now()
  last,       \* the last completed store call: operation, arguments, outcome
  proc,       \* per OS process: position inside a store call and its locals
  appended,   \* per flow: the events that completed add_event calls wrote
  logs,       \* per log file: the lines the producer has written
  pending,    \* per log file: writes the observer thread has not reported yet
  queue,      \* ConversationStreamProcessor._event_queue
  tailer,     \* ConversationStreamProcessor: task position and fields
  delivered,  \* the events the handlers have been called with, in call order
  racy,       \* per log file: a write came before or during a pass over it
  invoked,    \* the handler calls made for the last dispatched event, in order
  rc,         \* per PipelineReplayController: its fields and its last return
  ws,         \* conversation_websocket: its module globals and the last emits
  twin,       \* a static log file and the processors that each read it
  dispatching, \* the handler loop of _process_log_line while it is suspended
  stopped_at  \* where start_streaming stood at the last stop_streaming call

storeVars == <<file, now, last, proc, appended>>
tailVars == <<logs, pending, queue, tailer, delivered, racy, invoked>>
replayVars == <<rc>>
wsVars == <<ws>>
twinVars == <<twin>>
loopVars == <<dispatching>>
stopVars == <<stopped_at>>
nonStoreVars == <<tailVars, replayVars, wsVars, twinVars, loopVars, stopVars>>
nonTailVars == <<storeVars, replayVars, wsVars, twinVars, loopVars, stopVars>>
nonReplayVars == <<storeVars, tailVars, wsVars, twinVars, loopVars, stopVars>>
nonWsVars == <<storeVars, tailVars, replayVars, twinVars, loopVars, stopVars>>

(***************************************************************************)
(* The stored document {"flows": {...}, "events": [...]}.                  *)
(***************************************************************************)
EmptyDict == [x \in {} |-> 0]
EmptyDoc == [flows |-> EmptyDict, events |-> <<>>]

\* The file holds a JSON document or is empty (just truncated by
\* open(.., "w")); it may also not exist, or hold the text of a document
\* that was cut short, which does not parse.
FileDoc(d) == [kind |-> "doc", doc |-> d]
FileEmpty == [kind |-> "empty", doc |-> EmptyDoc]
FileMissing == [kind |-> "missing", doc |-> EmptyDoc]
FileCorrupt(d) == [kind |-> "corrupt", doc |-> d]

\* Variant of ReadEvents that takes whatever document the text came from.
ReadEvents_IgnoresDamage(f) == f.doc

\* _read_events: json.load of the file; FileNotFoundError / JSONDecodeError
\* give the empty document.
ReadEvents(f) == IF f.kind = "doc" THEN f.doc ELSE EmptyDoc

DictPut(flows, flow_id, rec) ==
  [x \in (DOMAIN flows) \cup {flow_id} |-> IF x = flow_id THEN rec ELSE flows[x]]

\* [e for e in data["events"] if e.get("flow_id") == flow_id]
FlowEventsOf(data, flow_id) ==
  LET Test(e) == e.flow_id = flow_id IN SelectSeq(data.events, Test)

\* get_flow_events
GetFlowEvents(f, flow_id) == FlowEventsOf(ReadEvents(f), flow_id)

\* add_flow: the document written back.
NewFlowRecord(flow_id, project_name, t) ==
  [id |-> flow_id, project_name |-> project_name, started_at |-> t,
   completed_at |-> NoTime, is_active |-> TRUE, current_stage |-> Absent]

AddFlowDoc(data, flow_id, project_name, t) ==
  [data EXCEPT !.flows = DictPut(data.flows, flow_id,
                                  NewFlowRecord(flow_id, project_name, t))]

\* add_event: "if flow_id not in data['flows']: return" (nothing is written).
AddEventWrites(data, flow_id) == flow_id \in DOMAIN data.flows

\* add_event: {"flow_id": flow_id, "timestamp": now, **event} and the
\* sequential event_id when the dict has none.
EventData(data, flow_id, event, t) ==
  [flow_id    |-> IF event.flow_id # Absent THEN event.flow_id ELSE flow_id,
   timestamp  |-> IF event.timestamp # NoTime THEN event.timestamp ELSE t,
   event_id   |-> IF event.event_id # NoId THEN event.event_id
                  ELSE <<flow_id, Len(FlowEventsOf(data, flow_id))>>,
   stage      |-> event.stage,
   event_type |-> event.event_type]

AddEventDoc(data, flow_id, event, t) ==
  [flows  |-> IF event.stage # Absent
              THEN [data.flows EXCEPT ![flow_id].current_stage = event.stage]
              ELSE data.flows,
   events |-> Append(data.events, EventData(data, flow_id, event, t))]

\* complete_flow: writes only when the flow is in the document.
CompleteFlowWrites(data, flow_id) == flow_id \in DOMAIN data.flows

\* Variant of CompleteFlowDoc that forgets to clear is_active.
CompleteFlowDoc_KeepsActive(data, flow_id, t) ==
  [data EXCEPT !.flows[flow_id].completed_at = t]

CompleteFlowDoc(data, flow_id, t) ==
  [data EXCEPT !.flows[flow_id].completed_at = t,
               !.flows[flow_id].is_active = FALSE]

\* clear_old_events: keep the flows started after the cutoff, and their events.
ClearOldEventsDoc(data, hours, t) ==
  LET cutoff == t - hours
      active_flows == {x \in DOMAIN data.flows : data.flows[x].started_at > cutoff}
      Keep(e) == e.flow_id \in active_flows
  IN [flows  |-> [x \in active_flows |-> data.flows[x]],
      events |-> SelectSeq(data.events, Keep)]

(***************************************************************************)
(* Initial state: the file as SharedPipelineEvents.__init__ creates it.    *)
(***************************************************************************)
NoCall == [op |-> "none", flow |-> Absent, outcome |-> "none"]
Returned(op, flow_id) == [op |-> op, flow |-> flow_id, outcome |-> "returned"]

IdleProc ==
  [pc |-> "idle", data |-> EmptyDoc, flow |-> Absent,
   calls |-> [f \in FlowIds |-> 0]]

\* ConversationStreamProcessor.__init__, over a directory of empty log files.
NoPass == [file |-> Absent, cursor |-> 0]
NoDispatch == [id |-> 0, calls |-> <<>>]
TailInit ==
  /\ logs = [f \in LogFiles |-> <<>>]
  /\ pending = [f \in LogFiles |-> 0]
  /\ queue = <<>>
  /\ tailer = [pc |-> "init", todo |-> <<>>, pass |-> NoPass,
               file_positions |-> EmptyDict, event_counter |-> 0,
               event_handlers |-> <<>>, conversation_history |-> <<>>,
               running |-> FALSE]
  /\ delivered = <<>>
  /\ racy = [f \in LogFiles |-> FALSE]
  /\ invoked = NoDispatch

\* No PipelineReplayController has been constructed.
NoReturn == [op |-> "none", ok |-> FALSE]
NoController ==
  [built |-> FALSE, handle |-> "none", flow_id |-> Absent, events |-> <<>>,
   current_position |-> 0, max_position |-> 0, ret |-> NoReturn]
ReplayInit == rc = [c \in Controllers |-> NoController]

\* The "filters" object of a subscribe message: none given, an agent filter,
\* an agentId that is the empty string, a types map that switches pm_thinking
\* off, a types map that switches blocker off and pm_thinking on.
NoFilter == [agentId |-> Absent, types |-> EmptyDict, subscribed |-> TRUE]
FilterInputs ==
  { NoFilter,
    [NoFilter EXCEPT !.agentId = "agentA"],
    [NoFilter EXCEPT !.agentId = ""],
    [NoFilter EXCEPT !.types = [k \in {"pm_thinking"} |-> FALSE]],
    [NoFilter EXCEPT !.types = [k \in {"blocker", "pm_thinking"} |-> k = "pm_thinking"]] }

\* ConversationEvent.to_dict() of the events handed to the handler.
WsEvents ==
  { [source |-> "agentA", target |-> "marcus", event_type |-> "worker_message"],
    [source |-> "marcus", target |-> "internal", event_type |-> "pm_thinking"],
    [source |-> "agentB", target |-> "agentB", event_type |-> "blocker_report"] }

\* conversation_websocket at import: no client is connected, no filter is
\* stored, nothing has been emitted.
NoSubscription == [agentId |-> Absent, types |-> EmptyDict, subscribed |-> FALSE]
NoEvent == [source |-> Absent, target |-> Absent, event_type |-> Absent]
NoEmit == [event |-> NoEvent, rooms |-> {}, thinking |-> FALSE]
WsInit ==
  ws = [connected_clients |-> {}, client_filters |-> EmptyDict,
        latest |-> [c \in Clients |-> NoSubscription], sent |-> NoEmit]

\* A ConversationStreamProcessor after __init__, about to read a file from
\* offset 0.
NewProcessor ==
  [cursor |-> 0, event_counter |-> 0, conversation_history |-> <<>>,
   file_position |-> NoTime, pass_over |-> FALSE]

\* No static file is being read.
TwinInit == twin = [log |-> <<>>, inst |-> [i \in Instances |-> NewProcessor]]

\* No event is being dispatched.
NoLoop == [active |-> FALSE, id |-> 0, index |-> 0, before |-> <<>>, calls |-> <<>>]
LoopInit == dispatching = NoLoop

\* stop_streaming has not been called.
StopInit == stopped_at = "never"

StoreInit ==
  /\ file = FileDoc(EmptyDoc)
  /\ now = 0
  /\ last = NoCall
  /\ proc = [p \in Procs |-> IdleProc]
  /\ appended = [f \in FlowIds |-> <<>>]
  /\ TailInit
  /\ ReplayInit
  /\ WsInit
  /\ TwinInit
  /\ LoopInit
  /\ StopInit

(***************************************************************************)
(* One process using the store: every call runs to completion.             *)
(***************************************************************************)
Tick ==
  /\ now < MaxTime
  /\ now' = now + 1
  /\ UNCHANGED <<file, last, proc, appended, nonStoreVars>>

AddFlow(flow_id, project_name) ==
  /\ file' = FileDoc(AddFlowDoc(ReadEvents(file), flow_id, project_name, now))
  /\ last' = Returned("add_flow", flow_id)
  /\ UNCHANGED <<now, proc, appended, nonStoreVars>>

\* Variant of AddEvent that registers an unknown flow instead of returning.
AddEvent_Upsert(flow_id, event) ==
  /\ Len(ReadEvents(file).events) < MaxEvents
  /\ file' = IF AddEventWrites(ReadEvents(file), flow_id)
             THEN FileDoc(AddEventDoc(ReadEvents(file), flow_id, event, now))
             ELSE FileDoc(AddEventDoc(AddFlowDoc(ReadEvents(file), flow_id, "alpha", now),
                                      flow_id, event, now))
  /\ last' = Returned("add_event", flow_id)
  /\ UNCHANGED <<now, proc, appended, nonStoreVars>>

AddEvent(flow_id, event) ==
  /\ AddEventWrites(ReadEvents(file), flow_id) => Len(ReadEvents(file).events) < MaxEvents
  /\ file' = IF AddEventWrites(ReadEvents(file), flow_id)
             THEN FileDoc(AddEventDoc(ReadEvents(file), flow_id, event, now))
             ELSE file
  /\ last' = Returned("add_event", flow_id)
  /\ UNCHANGED <<now, proc, appended, nonStoreVars>>

CompleteFlow(flow_id) ==
  /\ file' = IF CompleteFlowWrites(ReadEvents(file), flow_id)
             THEN FileDoc(CompleteFlowDoc(ReadEvents(file), flow_id, now))
             ELSE file
  /\ last' = Returned("complete_flow", flow_id)
  /\ UNCHANGED <<now, proc, appended, nonStoreVars>>

ClearOldEvents(hours) ==
  /\ file' = FileDoc(ClearOldEventsDoc(ReadEvents(file), hours, now))
  /\ last' = Returned("clear_old_events", Absent)
  /\ UNCHANGED <<now, proc, appended, nonStoreVars>>

StoreNext ==
  \/ Tick
  \/ \E f \in FlowIds, n \in ProjectNames : AddFlow(f, n)
  \/ \E f \in FlowIds, e \in EventInputs : AddEvent(f, e)
  \/ \E f \in FlowIds : CompleteFlow(f)
  \/ \E h \in HoursInputs : ClearOldEvents(h)

vars == <<storeVars, tailVars, replayVars, wsVars, twinVars, loopVars, stopVars>>

Init == StoreInit
Next == StoreNext
Spec == Init /\ [][Next]_vars

(***************************************************************************)
(* Two OS processes calling add_event on stored flows.  A call is          *)
(* _read_events, then _write_events.  open(file, "w") truncates the file   *)
(* before flock(LOCK_EX) is requested, json.dump fills the file object's   *)
(* buffer and the bytes reach the file when the buffer is flushed; the     *)
(* shared lock of _read_events is released before add_event goes on.  The  *)
(* locks therefore order nothing between the read and the write-back of    *)
(* one call, and the steps of the two processes interleave freely.         *)
(***************************************************************************)
SharedFlow == "f1"

\* Both flows have been created with add_flow and are open.
SharedInit ==
  /\ file = FileDoc(AddFlowDoc(AddFlowDoc(EmptyDoc, "f1", "alpha", 0), "f2", "alpha", 0))
  /\ now = 0
  /\ last = NoCall
  /\ proc = [p \in Procs |-> IdleProc]
  /\ appended = [f \in FlowIds |-> <<>>]
  /\ TailInit
  /\ ReplayInit
  /\ WsInit
  /\ TwinInit
  /\ LoopInit
  /\ StopInit

CallsMade(p) == proc[p].calls["f1"] + proc[p].calls["f2"]

\* data = self._read_events(), the membership test and the in-memory append.
ProcRead(p, flow_id) ==
  /\ proc[p].pc = "idle"
  /\ CallsMade(p) < CallsPerProc
  /\ LET data == ReadEvents(file) IN
       proc' = [proc EXCEPT ![p] =
                  IF AddEventWrites(data, flow_id)
                  THEN [pc |-> "open", calls |-> proc[p].calls, flow |-> flow_id,
                        data |-> AddEventDoc(data, flow_id, PlainEvent, now)]
                  ELSE [IdleProc EXCEPT
                          !.calls = [proc[p].calls EXCEPT ![flow_id] = @ + 1]]]
  /\ UNCHANGED <<file, now, last, appended, nonStoreVars>>

\* _write_events: open(self.events_file, "w") empties the file.
ProcTruncate(p) ==
  /\ proc[p].pc = "open"
  /\ file' = FileEmpty
  /\ proc' = [proc EXCEPT ![p].pc = "dump"]
  /\ UNCHANGED <<now, last, appended, nonStoreVars>>

\* _write_events: the document is written from offset 0 when the file object
\* is flushed, and add_event returns.  (The documents two overlapping calls
\* write differ by one event of the same shape, so the later text covers the
\* earlier one.)
ProcDump(p) ==
  /\ proc[p].pc = "dump"
  /\ file' = FileDoc(proc[p].data)
  /\ appended' = [appended EXCEPT ![proc[p].flow] =
                    Append(@, proc[p].data.events[Len(proc[p].data.events)])]
  /\ proc' = [proc EXCEPT ![p] =
                [IdleProc EXCEPT
                   !.calls = [proc[p].calls EXCEPT ![proc[p].flow] = @ + 1]]]
  /\ UNCHANGED <<now, last, nonStoreVars>>

SharedNext ==
  \/ \E p \in Procs, f \in FlowIds : ProcRead(p, f)
  \/ \E p \in Procs : ProcTruncate(p)
  \/ \E p \in Procs : ProcDump(p)

SpecShared == SharedInit /\ [][SharedNext]_vars

NoCallRunning == \A p \in Procs : proc[p].pc = "idle"

\* C1 (as stated): whenever no call is running, get_flow_events(f) returns
\* exactly the events that the add_event calls on f appended, in the order in
\* which they were appended, whatever was appended to the other flow.
C1_ReadReturnsAppendOrder ==
  NoCallRunning => \A f \in FlowIds : GetFlowEvents(file, f) = appended[f]

\* C2 (as stated): when both processes have finished CallsPerProc add_event
\* calls each, all on the same flow, the stored document holds exactly
\* 2 * CallsPerProc events of that flow.
C2_NoAppendLost ==
  (NoCallRunning /\ \A p \in Procs : proc[p].calls[SharedFlow] = CallsPerProc)
    => Len(GetFlowEvents(file, SharedFlow)) = 2 * CallsPerProc

(***************************************************************************)
(* Claims about the store used by one process (specification Spec).        *)
(***************************************************************************)
StoredFlows == ReadEvents(file).flows
FlowKnown(f) == f \in DOMAIN StoredFlows
FlowOpen(f) == FlowKnown(f) /\ StoredFlows[f].is_active
FlowCompleted(f) == FlowKnown(f) /\ StoredFlows[f].completed_at # NoTime

\* C3 (as stated): an add_event on a flow whose completed_at is set fails with
\* FlowClosedError and get_flow_events returns the same list as before.
C3_ClosedFlowRejectsEvent ==
  [][\A f \in FlowIds, e \in EventInputs :
       (AddEvent(f, e) /\ FlowCompleted(f)) =>
         /\ last'.outcome = "FlowClosedError"
         /\ GetFlowEvents(file', f) = GetFlowEvents(file, f)]_vars

\* C4: in every reachable document a flow whose completed_at is set has
\* is_active = false.
C4_CompletedIsInactive ==
  \A f \in DOMAIN StoredFlows :
    StoredFlows[f].completed_at # NoTime => ~StoredFlows[f].is_active

\* C4 witness: a completed flow that still received an event afterwards, next
\* to a flow that was created again and is active.
C4_Witness ==
  /\ FlowCompleted("f1") /\ FlowOpen("f2")
  /\ last.op = "add_event" /\ last.flow = "f1"
  /\ Len(GetFlowEvents(file, "f1")) > 0

C6_DuplicateFlowRejected ==
  [][\A f \in FlowIds, n \in ProjectNames :
       (AddFlow(f, n) /\ FlowKnown(f)) =>
         /\ last'.outcome = "DuplicateFlowError"
         /\ ReadEvents(file').flows[f] = StoredFlows[f]
         /\ GetFlowEvents(file', f) = GetFlowEvents(file, f)]_vars

(***************************************************************************)
(* The log tailer.  Three threads of control take steps: the producer      *)
(* process appending lines, the watchdog observer thread calling           *)
(* LogFileHandler.on_modified, and the asyncio task running                *)
(* start_streaming.  Offsets are counted in lines.                         *)
(***************************************************************************)
\* observer.start() has run and observer.stop() has not: writes to the
\* directory are reported.
Observing == tailer.pc \notin {"init", "returned"}

\* self.processor._file_positions.get(str(file_path), 0)
FilePosition(positions, f) == IF f \in DOMAIN positions THEN positions[f] ELSE 0

\* The producer appends one line with one write.
ProducerAppend(f, kind) ==
  /\ Len(logs[f]) < MaxLines
  /\ logs' = [logs EXCEPT ![f] = Append(@, [kind |-> kind])]
  /\ pending' = [pending EXCEPT ![f] = IF Observing THEN @ + 1 ELSE @]
  /\ racy' = [racy EXCEPT ![f] =
                @ \/ (Observing /\ (f \notin DOMAIN tailer.file_positions
                                    \/ tailer.pass.file = f))]
  /\ UNCHANGED <<queue, tailer, delivered, invoked, nonTailVars>>

\* LogFileHandler.on_modified, on the observer thread.
OnModified(f) ==
  /\ pending[f] > 0
  /\ pending' = [pending EXCEPT ![f] = @ - 1]
  /\ queue' = Append(queue, <<f, FilePosition(tailer.file_positions, f)>>)
  /\ UNCHANGED <<logs, tailer, delivered, racy, invoked, nonTailVars>>

\* add_event_handler: self.event_handlers.append(handler)
AddEventHandler(h) ==
  /\ Len(tailer.event_handlers) < MaxHandlers
  /\ tailer' = [tailer EXCEPT !.event_handlers = Append(@, h)]
  /\ UNCHANGED <<logs, pending, queue, delivered, racy, invoked, nonTailVars>>

\* list.remove(handler): the list without the first occurrence of handler.
RemoveFirst(seq, h) ==
  IF \E i \in 1..Len(seq) : seq[i] = h
  THEN LET i == CHOOSE k \in 1..Len(seq) :
                  seq[k] = h /\ \A j \in 1..(k - 1) : seq[j] # h
       IN SubSeq(seq, 1, i - 1) \o SubSeq(seq, i + 1, Len(seq))
  ELSE seq

\* remove_event_handler
RemoveEventHandler(h) ==
  /\ tailer' = [tailer EXCEPT !.event_handlers = RemoveFirst(@, h)]
  /\ UNCHANGED <<logs, pending, queue, delivered, racy, invoked, nonTailVars>>

\* stop_streaming: self._running = False, from any task or thread.
StopStreaming ==
  /\ tailer' = [tailer EXCEPT !.running = FALSE]
  /\ stopped_at' = tailer.pc
  /\ UNCHANGED <<logs, pending, queue, delivered, racy, invoked,
                 storeVars, replayVars, wsVars, twinVars, loopVars>>

\* start_streaming up to the glob of _process_existing_logs.
StartStreaming ==
  /\ tailer.pc = "init"
  /\ tailer' = [tailer EXCEPT !.pc = "existing", !.todo = SortedLogFiles,
                              !.running = TRUE]
  /\ UNCHANGED <<logs, pending, queue, delivered, racy, invoked, nonTailVars>>

\* _process_existing_logs: the next file from position 0, or on to the loop.
ProcessExistingLogs ==
  /\ tailer.pc = "existing"
  /\ tailer.pass = NoPass
  /\ tailer' = IF tailer.todo = <<>>
               THEN [tailer EXCEPT !.pc = "loop"]
               ELSE [tailer EXCEPT !.pass = [file |-> Head(tailer.todo), cursor |-> 0],
                                   !.todo = Tail(tailer.todo)]
  /\ UNCHANGED <<logs, pending, queue, delivered, racy, invoked, nonTailVars>>

\* Variant of the loop test that does not read the flag.
WhileRunningTest_IgnoresFlag(running) == TRUE

\* "while self._running"
WhileRunningTest(running) == running

\* start_streaming: the test of the while loop (after the sleep); when it
\* fails the finally block stops the observer and start_streaming returns.
WhileRunning ==
  /\ tailer.pc = "loop"
  /\ tailer' = [tailer EXCEPT !.pc = IF WhileRunningTest(tailer.running)
                                     THEN "queue" ELSE "returned"]
  /\ UNCHANGED <<logs, pending, queue, delivered, racy, invoked, nonTailVars>>

\* _process_queue: "while not self._event_queue.empty()": get_nowait() and
\* the start of _process_log_file, or back to the sleep of start_streaming.
ProcessQueue ==
  /\ tailer.pc = "queue"
  /\ tailer.pass = NoPass
  /\ tailer' = IF queue # <<>>
               THEN [tailer EXCEPT !.pass = [file |-> Head(queue)[1],
                                             cursor |-> Head(queue)[2]]]
               ELSE [tailer EXCEPT !.pc = "loop"]
  /\ queue' = IF queue # <<>> THEN Tail(queue) ELSE queue
  /\ UNCHANGED <<logs, pending, delivered, racy, invoked, nonTailVars>>

\* Variant of ParseOutcome where a JSON decode error is not caught.
ParseOutcome_DecodeErrorEscapes(kind) ==
  CASE kind = "event" -> "event"
    [] kind = "bad_json" -> "raised"
    [] kind = "bad_timestamp" -> "raised"
    [] kind \in {"head", "rest"} -> "raised"

\* _process_log_line on one line: json.loads raises JSONDecodeError, which is
\* caught ("skipped"); datetime.fromisoformat raises ValueError, which no
\* except clause of _process_log_line catches ("raised"); or an event is made.
\* The first or the second part of a line, read on its own, is not JSON.
ParseOutcome(kind) ==
  CASE kind = "event" -> "event"
    [] kind = "bad_json" -> "skipped"
    [] kind = "bad_timestamp" -> "raised"
    [] kind \in {"head", "rest"} -> "skipped"

\* Variant of Dispatch that stops at the first handler that raises.
Dispatch_StopsAtRaise(handlers, id) ==
  LET Stop(n) == \E i \in 1..(n - 1) : handlers[i] \in RaisingHandlers
      last_called == IF \E n \in 1..Len(handlers) : handlers[n] \in RaisingHandlers
                     THEN CHOOSE n \in 1..Len(handlers) :
                            handlers[n] \in RaisingHandlers /\ ~Stop(n)
                     ELSE Len(handlers)
  IN [id |-> id,
      calls |-> [i \in 1..last_called |->
                   [handler |-> handlers[i], raised |-> handlers[i] \in RaisingHandlers]]]

\* "for handler in self.event_handlers: try: handler(event) except Exception"
Dispatch(handlers, id) ==
  [id |-> id,
   calls |-> [i \in 1..Len(handlers) |->
                [handler |-> handlers[i], raised |-> handlers[i] \in RaisingHandlers]]]

\* Variant of HistoryAppend that gives up the newest entry at the bound.
HistoryAppend_DropsNewest(history, id) ==
  IF Len(history) + 1 > MaxHistorySize
  THEN history
  ELSE Append(history, id)

\* conversation_history.append(event) and pop(0) above max_history_size.
HistoryAppend(history, id) ==
  IF Len(history) + 1 > MaxHistorySize
  THEN Tail(Append(history, id))
  ELSE Append(history, id)

\* The line the running pass is about to read, and the number of writes it
\* spans: the two parts of a line that was written in two parts are read as
\* one line when both are in the file and the pass stands before the first.
CurrentLine ==
  LET lines == logs[tailer.pass.file]
      k == tailer.pass.cursor + 1
  IN IF lines[k].kind = "head" /\ k < Len(lines) /\ lines[k + 1].kind = "rest"
     THEN [kind |-> "event", span |-> 2]
     ELSE [kind |-> lines[k].kind, span |-> 1]

\* _process_log_file: one iteration of "async for line in f", with
\* _process_log_line and _parse_log_entry for the line.  An exception that
\* leaves _process_log_line ends the pass in "except Exception" of
\* _process_log_file, before _file_positions is assigned.
ProcessLogLine ==
  /\ tailer.pass # NoPass
  /\ tailer.pass.cursor < Len(logs[tailer.pass.file])
  /\ LET outcome == ParseOutcome(CurrentLine.kind)
         id == tailer.event_counter + 1
     IN /\ tailer' =
             CASE outcome = "event" ->
                    [tailer EXCEPT !.pass.cursor = @ + CurrentLine.span, !.event_counter = id,
                                   !.conversation_history = HistoryAppend(@, id)]
               [] outcome = "skipped" ->
                    [tailer EXCEPT !.pass.cursor = @ + CurrentLine.span]
               [] outcome = "raised" ->
                    [tailer EXCEPT !.pass = NoPass, !.event_counter = id]
        /\ delivered' = IF outcome = "event"
                        THEN Append(delivered, [file |-> tailer.pass.file,
                                                line |-> tailer.pass.cursor + 1,
                                                id   |-> id])
                        ELSE delivered
        /\ invoked' = IF outcome = "event"
                      THEN Dispatch(tailer.event_handlers, id)
                      ELSE invoked
  /\ UNCHANGED <<logs, pending, queue, racy, nonTailVars>>

\* _process_log_file: end of file, self._file_positions[...] = await f.tell().
ProcessLogFileEnd ==
  /\ tailer.pass # NoPass
  /\ tailer.pass.cursor >= Len(logs[tailer.pass.file])
  /\ tailer' = [tailer EXCEPT !.file_positions =
                                 DictPut(@, tailer.pass.file, tailer.pass.cursor),
                               !.pass = NoPass]
  /\ UNCHANGED <<logs, pending, queue, delivered, racy, invoked, nonTailVars>>

TailNext ==
  \/ \E f \in LogFiles, k \in LineKinds : ProducerAppend(f, k)
  \/ \E f \in LogFiles : OnModified(f)
  \/ StartStreaming
  \/ ProcessExistingLogs
  \/ WhileRunning
  \/ ProcessQueue
  \/ ProcessLogLine
  \/ ProcessLogFileEnd

SpecTail == Init /\ [][TailNext]_vars

\* The events delivered for the lines of log file f.
DeliveredOf(f) == LET Test(d) == d.file = f IN SelectSeq(delivered, Test)
\* No write is unreported, no notification is queued and no pass is running.
TailerAtRest ==
  /\ tailer.pc \in {"loop", "queue"} /\ tailer.pass = NoPass /\ queue = <<>>
  /\ \A f \in LogFiles : pending[f] = 0

\* C7 (as stated): no line of a log file is delivered to the handlers more
\* than once.
C7_NoLineDeliveredTwice ==
  \A i, j \in 1..Len(delivered) :
    (i # j) => (delivered[i].file # delivered[j].file
                \/ delivered[i].line # delivered[j].line)

\* C8 (as stated): when a file was processed with the K lines it held, the
\* producer then appended M lines while no pass over the file was running, and
\* every notification has been handled, the handlers have received K + M
\* events for the file, one for each line.
C8_ExactlyKPlusM ==
  \A f \in LogFiles :
    (TailerAtRest /\ ~racy[f]) =>
      /\ Len(DeliveredOf(f)) = Len(logs[f])
      /\ \A n \in 1..Len(logs[f]) : DeliveredOf(f)[n].line = n

\* C9 (as stated): for each log file, an event of an earlier line is never
\* delivered after an event of a later line.
C9_DeliveredInLineOrder ==
  \A i, j \in 1..Len(delivered) :
    (i < j /\ delivered[i].file = delivered[j].file)
      => delivered[i].line <= delivered[j].line

(***************************************************************************)
(* Stopping the tailer: one log file, the producer, the observer thread,   *)
(* the start_streaming task and a caller of stop_streaming.  The event     *)
(* loop runs the task whenever it is ready (a sleep or a file read         *)
(* completes), hence weak fairness of its steps once it has started.       *)
(***************************************************************************)
TaskStep ==
  \/ ProcessExistingLogs
  \/ WhileRunning
  \/ ProcessQueue
  \/ ProcessLogLine
  \/ ProcessLogFileEnd

StopNext ==
  \/ ProducerAppend(StreamFile, "event")
  \/ OnModified(StreamFile)
  \/ StopStreaming
  \/ StartStreaming
  \/ ProcessExistingLogs
  \/ WhileRunning
  \/ ProcessQueue
  \/ ProcessLogLine
  \/ ProcessLogFileEnd

SpecStop == Init /\ [][StopNext]_vars /\ WF_vars(TaskStep)

\* start_streaming has been entered and has not returned.
Streaming == tailer.pc \in {"existing", "loop", "queue"}

\* C15: once stop_streaming has been called while start_streaming runs, the
\* next test of the running flag ends the loop and start_streaming returns;
\* after that no pass over a file is started and nothing is delivered; a
\* stop_streaming call on a stopped processor changes nothing.
C15_StopEndsTheLoop ==
  /\ [][/\ (WhileRunning /\ ~tailer.running) => tailer'.pc = "returned"
        /\ (tailer.pc = "returned") =>
             (tailer'.pc = "returned" /\ tailer'.pass = NoPass /\ delivered' = delivered)
        /\ (StopStreaming /\ ~tailer.running) => tailer' = tailer]_vars
  /\ ((Streaming /\ ~tailer.running) ~> (tailer.pc = "returned"))

\* C15 witness: start_streaming has returned after delivering an event, with
\* a notification still in the queue.
C15_Witness ==
  /\ tailer.pc = "returned" /\ ~tailer.running
  /\ queue # <<>> /\ delivered # <<>>

(***************************************************************************)
(* Handlers and malformed lines: one log file whose lines are of every     *)
(* kind, and callers that register and remove handlers.                    *)
(***************************************************************************)
DispatchNext ==
  \/ \E k \in DispatchLineKinds : ProducerAppend(StreamFile, k)
  \/ OnModified(StreamFile)
  \/ \E h \in HandlerIds : AddEventHandler(h)
  \/ \E h \in HandlerIds : RemoveEventHandler(h)
  \/ StartStreaming
  \/ ProcessExistingLogs
  \/ WhileRunning
  \/ ProcessQueue
  \/ ProcessLogLine
  \/ ProcessLogFileEnd

SpecDispatch == Init /\ [][DispatchNext]_vars

Range(seq) == {seq[i] : i \in DOMAIN seq}

\* The pass moves on to the line after the one it has just read.
PassContinues ==
  tailer'.pass = [file |-> tailer.pass.file, cursor |-> tailer.pass.cursor + 1]

\* C16: when an event is dispatched, every registered handler is called, in
\* list order, whether or not a handler before it raised; the event is in the
\* history and the pass goes on with the next line.
C16_RaisingHandlerIsolated ==
  [][(ProcessLogLine /\ ParseOutcome(CurrentLine.kind) = "event") =>
       /\ Len(invoked'.calls) = Len(tailer.event_handlers)
       /\ \A i \in 1..Len(tailer.event_handlers) :
            invoked'.calls[i].handler = tailer.event_handlers[i]
       /\ invoked'.id = tailer'.conversation_history[Len(tailer'.conversation_history)]
       /\ PassContinues]_vars

\* C16 witness: for the last event the first handler raised, the handler
\* registered after it was called, and the pass is still running.
C16_Witness ==
  /\ Len(invoked.calls) = 2
  /\ invoked.calls[1].raised /\ ~invoked.calls[2].raised
  /\ tailer.pass # NoPass
  /\ invoked.id \in Range(tailer.conversation_history)

\* C17 (as stated): for every dispatched event each handler that is registered
\* is called exactly once, a handler that is not registered is not called,
\* the calls are in registration order, and after remove_event_handler(h) the
\* handler h is not registered any more.
C17_EachHandlerOncePerEvent ==
  [][/\ (ProcessLogLine /\ ParseOutcome(CurrentLine.kind) = "event") =>
          /\ \A h \in HandlerIds :
               Cardinality({i \in DOMAIN invoked'.calls : invoked'.calls[i].handler = h})
                 = (IF h \in Range(tailer.event_handlers) THEN 1 ELSE 0)
          /\ \A i \in DOMAIN invoked'.calls :
               i <= Len(tailer.event_handlers)
               /\ invoked'.calls[i].handler = tailer.event_handlers[i]
     /\ \A h \in HandlerIds :
          RemoveEventHandler(h) => h \notin Range(tailer'.event_handlers)]_vars

\* C18: a line that is not JSON creates no event, calls no handler and leaves
\* the history as it was, and the pass goes on with the next line.
C18_BadJsonLineSkipped ==
  [][(ProcessLogLine /\ CurrentLine.kind = "bad_json") =>
       /\ delivered' = delivered
       /\ invoked' = invoked
       /\ tailer'.conversation_history = tailer.conversation_history
       /\ tailer'.event_counter = tailer.event_counter
       /\ PassContinues]_vars

\* C18 witness: the event of line 2 was delivered to a registered handler in
\* a pass that had read the non-JSON line 1 before it.
C18_Witness ==
  /\ Len(logs[StreamFile]) >= 2
  /\ logs[StreamFile][1].kind = "bad_json"
  /\ delivered = <<[file |-> StreamFile, line |-> 2, id |-> 1]>>
  /\ Len(invoked.calls) > 0

\* C19 (as stated): a line whose timestamp cannot be parsed does not end the
\* pass: the pass goes on with the next line (and so reaches the assignment
\* of the file's offset).
C19_BadTimestampLineTolerated ==
  [][(ProcessLogLine /\ CurrentLine.kind = "bad_timestamp") => PassContinues]_vars

(***************************************************************************)
(* PipelineReplayController over the stored flows.                         *)
(***************************************************************************)
\* Variant of SortedByTimestamp that puts an event before the earlier
\* events of the same timestamp.
RECURSIVE SortedByTimestamp_TiesReversed(_)
SortedByTimestamp_TiesReversed(events) ==
  IF events = <<>> THEN <<>>
  ELSE LET rest == SortedByTimestamp_TiesReversed(SubSeq(events, 1, Len(events) - 1))
           e == events[Len(events)]
           Before(x) == x.timestamp < e.timestamp
           NotBefore(x) == x.timestamp >= e.timestamp
       IN SelectSeq(rest, Before) \o <<e>> \o SelectSeq(rest, NotBefore)

\* sorted(all_events, key=lambda e: e.get('timestamp', '')): a stable sort.
RECURSIVE SortedByTimestamp(_)
SortedByTimestamp(events) ==
  IF events = <<>> THEN <<>>
  ELSE LET rest == SortedByTimestamp(SubSeq(events, 1, Len(events) - 1))
           e == events[Len(events)]
           NotAfter(x) == x.timestamp <= e.timestamp
           After(x) == x.timestamp > e.timestamp
       IN SelectSeq(rest, NotAfter) \o <<e>> \o SelectSeq(rest, After)

\* _load_flow_events
LoadFlowEvents(f, flow_id) == SortedByTimestamp(GetFlowEvents(f, flow_id))

\* Variant of GetCurrentEvent that looks the event up in the store's
\* current events instead of the list loaded at construction.
GetCurrentEvent_Live(c) ==
  IF 0 <= c.current_position
       /\ c.current_position < Len(LoadFlowEvents(file, c.flow_id))
  THEN <<LoadFlowEvents(file, c.flow_id)[c.current_position + 1]>>
  ELSE <<>>

\* get_current_event
GetCurrentEvent(c) ==
  IF 0 <= c.current_position /\ c.current_position < Len(c.events)
  THEN <<c.events[c.current_position + 1]>>
  ELSE <<>>

\* The tests of step_forward, step_back and seek_to.
StepForwardOk_OffByOne(position, max_position) == position < max_position

StepForwardOk(position, max_position) == position < max_position - 1

\* Variant of StepBackOk without the floor at the first event.
StepBackOk_NoFloor(position) == position >= 0

StepBackOk(position) == position > 0

\* Variant of SeekOk that admits the position one past the last event.
SeekOk_Inclusive(position, max_position) == 0 <= position /\ position <= max_position

SeekOk(position, max_position) == 0 <= position /\ position < max_position

\* SharedPipelineEvents.__init__ inside PipelineReplayController.__init__:
\* "if not self.events_file.exists()" found no file.
RcHandleCheck(c) ==
  /\ ~rc[c].built /\ rc[c].handle = "none"
  /\ file.kind = "missing"
  /\ rc' = [rc EXCEPT ![c].handle = "creating"]
  /\ UNCHANGED nonReplayVars

\* ... and then self._write_events({"flows": {}, "events": []}).
RcHandleWrite(c) ==
  /\ rc[c].handle = "creating"
  /\ file' = FileDoc(EmptyDoc)
  /\ rc' = [rc EXCEPT ![c].handle = "open"]
  /\ UNCHANGED <<now, last, proc, appended, tailVars, wsVars, twinVars, loopVars, stopVars>>

\* PipelineReplayController.__init__ (with the store handle, when the file
\* exists): self.events = self._load_flow_events(flow_id) and the cursor.
RcConstruct(c, flow_id) ==
  /\ ~rc[c].built
  /\ rc[c].handle = "open" \/ (rc[c].handle = "none" /\ file.kind # "missing")
  /\ rc' = [rc EXCEPT ![c] =
              [built |-> TRUE, handle |-> "open", flow_id |-> flow_id,
               events |-> LoadFlowEvents(file, flow_id),
               current_position |-> 0,
               max_position |-> Len(LoadFlowEvents(file, flow_id)),
               ret |-> NoReturn]]
  /\ UNCHANGED nonReplayVars

RcStepForward(c) ==
  /\ rc[c].built
  /\ rc' = [rc EXCEPT ![c] =
              IF StepForwardOk(rc[c].current_position, rc[c].max_position)
              THEN [@ EXCEPT !.current_position = @ + 1,
                             !.ret = [op |-> "step_forward", ok |-> TRUE]]
              ELSE [@ EXCEPT !.ret = [op |-> "step_forward", ok |-> FALSE]]]
  /\ UNCHANGED nonReplayVars

RcStepBack(c) ==
  /\ rc[c].built
  /\ rc' = [rc EXCEPT ![c] =
              IF StepBackOk(rc[c].current_position)
              THEN [@ EXCEPT !.current_position = @ - 1,
                             !.ret = [op |-> "step_back", ok |-> TRUE]]
              ELSE [@ EXCEPT !.ret = [op |-> "step_back", ok |-> FALSE]]]
  /\ UNCHANGED nonReplayVars

\* Variant of RcSeekTo with one cursor for all controllers of the flow.
RcSeekTo_SharedCursor(c, position) ==
  /\ rc[c].built
  /\ rc' = [d \in Controllers |->
              IF d # c /\ ~(rc[d].built /\ rc[d].flow_id = rc[c].flow_id)
              THEN rc[d]
              ELSE IF SeekOk(position, rc[c].max_position)
                   THEN [rc[d] EXCEPT !.current_position = position,
                                      !.ret = [op |-> "seek_to", ok |-> TRUE]]
                   ELSE [rc[d] EXCEPT !.ret = [op |-> "seek_to", ok |-> FALSE]]]
  /\ UNCHANGED nonReplayVars

RcSeekTo(c, position) ==
  /\ rc[c].built
  /\ rc' = [rc EXCEPT ![c] =
              IF SeekOk(position, rc[c].max_position)
              THEN [@ EXCEPT !.current_position = position,
                             !.ret = [op |-> "seek_to", ok |-> TRUE]]
              ELSE [@ EXCEPT !.ret = [op |-> "seek_to", ok |-> FALSE]]]
  /\ UNCHANGED nonReplayVars

ReplayNext ==
  \/ Tick
  \/ \E f \in ReplayFlows, n \in ProjectNames : AddFlow(f, n)
  \/ \E f \in ReplayFlows, e \in ReplayEventInputs : AddEvent(f, e)
  \/ \E c \in SoloControllers, f \in ReplayFlows : RcConstruct(c, f)
  \/ \E c \in SoloControllers : RcStepForward(c)
  \/ \E c \in SoloControllers : RcStepBack(c)
  \/ \E c \in SoloControllers, p \in SeekInputs : RcSeekTo(c, p)

SpecReplay == Init /\ [][ReplayNext]_vars

\* C10: for a controller over N > 0 events, step_forward at position N-1
\* returns false and leaves the position, step_back at position 0 returns
\* false and leaves the position; at every other position step_forward moves
\* the cursor by +1, step_back by -1, and they return true.
C10_StepsStopAtTheEnds ==
  [][\A c \in Controllers :
       LET N == Len(rc[c].events)
           pos == rc[c].current_position
           pos2 == rc'[c].current_position
           ok2 == rc'[c].ret.ok
       IN /\ (RcStepForward(c) /\ N > 0) =>
               IF pos = N - 1 THEN ~ok2 /\ pos2 = pos
                              ELSE ok2 /\ pos2 = pos + 1
          /\ (RcStepBack(c) /\ N > 0) =>
               IF pos = 0 THEN ~ok2 /\ pos2 = pos
                          ELSE ok2 /\ pos2 = pos - 1]_vars

\* C10 witness: step_forward has just been refused at the last of at least
\* two events.
C10_Witness ==
  \E c \in Controllers :
    /\ rc[c].built /\ Len(rc[c].events) >= 2
    /\ rc[c].current_position = Len(rc[c].events) - 1
    /\ rc[c].ret = [op |-> "step_forward", ok |-> FALSE]

(***************************************************************************)
(* get_current_state: the fields computed from the cursor.                 *)
(***************************************************************************)
Min(a, b) == IF a < b THEN a ELSE b

\* "is_at_start": self.current_position == 0
IsAtStart(c) == c.current_position = 0

\* Variant of IsAtEnd that compares with the index of the last event.
IsAtEnd_LastIndex(c) == c.current_position = c.max_position - 1

\* "is_at_end": self.current_position >= self.max_position
IsAtEnd(c) == c.current_position >= c.max_position

\* Variant of GetStateAtPosition that leaves the event at the cursor out.
GetStateAtPosition_Exclusive(c, position) ==
  IF position < 0 THEN <<>>
  ELSE SubSeq(c.events, 1, Min(position, Len(c.events)))

\* get_state_at_position: self.events[:min(position + 1, len(self.events))]
GetStateAtPosition(c, position) ==
  IF position < 0 THEN <<>>
  ELSE SubSeq(c.events, 1, Min(position + 1, Len(c.events)))

\* "visible_events" of get_current_state
VisibleEvents(c) == GetStateAtPosition(c, c.current_position)

\* C11: seek_to(p) returns true exactly when 0 <= p < N, and then the cursor
\* is p and get_current_event is events[p]; for any other p it returns false
\* and the cursor stays where it was.
C11_SeekInRangeOnly ==
  [][\A c \in Controllers, p \in SeekInputs :
       LET N == Len(rc[c].events) IN
       RcSeekTo(c, p) =>
         IF 0 <= p /\ p < N
         THEN /\ rc'[c].ret = [op |-> "seek_to", ok |-> TRUE]
              /\ rc'[c].current_position = p
              /\ GetCurrentEvent(rc'[c]) = <<rc[c].events[p + 1]>>
         ELSE /\ rc'[c].ret = [op |-> "seek_to", ok |-> FALSE]
              /\ rc'[c].current_position = rc[c].current_position]_vars

\* C11 witness: a seek_to was refused while the cursor stood on the last of
\* at least two events (so an earlier seek or step had succeeded).
C11_Witness ==
  \E c \in Controllers :
    /\ rc[c].built /\ Len(rc[c].events) >= 2
    /\ rc[c].current_position = Len(rc[c].events) - 1
    /\ rc[c].ret = [op |-> "seek_to", ok |-> FALSE]

\* C12: for a controller over N > 0 events the cursor always satisfies
\* 0 <= position < N and get_current_event is events[position], whatever
\* step_forward, step_back and seek_to calls were made.
C12_CursorInRange ==
  \A c \in Controllers :
    (rc[c].built /\ Len(rc[c].events) > 0) =>
      /\ 0 <= rc[c].current_position
      /\ rc[c].current_position < Len(rc[c].events)
      /\ GetCurrentEvent(rc[c]) = <<rc[c].events[rc[c].current_position + 1]>>

\* C12 witness: a step_back was refused at position 0 of a controller over
\* events of which the second carries the timestamp it was sorted by.
C12_Witness ==
  \E c \in Controllers :
    /\ rc[c].built /\ Len(rc[c].events) >= 2
    /\ rc[c].current_position = 0
    /\ rc[c].ret = [op |-> "step_back", ok |-> FALSE]

\* C13 (as stated): visible_events has position + 1 entries, the events
\* 0..position in event order, in every state of a controller.
C13_VisibleIsPrefixThroughCursor ==
  \A c \in Controllers :
    rc[c].built =>
      /\ Len(VisibleEvents(rc[c])) = rc[c].current_position + 1
      /\ \A i \in 1..Len(VisibleEvents(rc[c])) :
           i <= Len(rc[c].events) /\ VisibleEvents(rc[c])[i] = rc[c].events[i]

\* C13 (amended): visible_events is the events 0..position in event order,
\* position + 1 entries, for a controller over N > 0 events, and the empty
\* list for a controller over no events; it never holds an event beyond the
\* cursor.
C13_VisibleIsPrefixOrEmpty ==
  \A c \in Controllers :
    rc[c].built =>
      /\ Len(VisibleEvents(rc[c])) =
           (IF Len(rc[c].events) = 0 THEN 0 ELSE rc[c].current_position + 1)
      /\ \A i \in 1..Len(VisibleEvents(rc[c])) :
           /\ i <= rc[c].current_position + 1
           /\ VisibleEvents(rc[c])[i] = rc[c].events[i]

\* C13 witness: after a successful step the cursor is in the middle of three
\* events.
C13_Witness ==
  \E c \in Controllers :
    /\ rc[c].built /\ Len(rc[c].events) = 3
    /\ rc[c].current_position = 1
    /\ rc[c].ret.ok

\* C14: a controller over no events reports is_at_start, is_at_end and no
\* current event, and every step_forward, step_back and seek_to call on it
\* returns false and leaves that so.
C14_EmptyFlowState ==
  \A c \in Controllers :
    (rc[c].built /\ Len(rc[c].events) = 0) =>
      /\ IsAtStart(rc[c]) /\ IsAtEnd(rc[c])
      /\ GetCurrentEvent(rc[c]) = <<>>
      /\ rc[c].ret # NoReturn => ~rc[c].ret.ok

\* C14 witness: seek_to(0) was refused by a controller that holds no events,
\* while the stored flow has received events since.
C14_Witness ==
  \E c \in Controllers :
    /\ rc[c].built /\ Len(rc[c].events) = 0
    /\ rc[c].ret = [op |-> "seek_to", ok |-> FALSE]
    /\ Len(GetFlowEvents(file, rc[c].flow_id)) > 0

(***************************************************************************)
(* conversation_websocket: the Socket.IO handlers and the handler that is  *)
(* registered with the stream processor.  Each handler runs to completion  *)
(* before the next one starts.  ws.latest records, per client, the filter  *)
(* of its last subscribe message since it last unsubscribed or             *)
(* disconnected.  The 'connected', 'subscribed', 'unsubscribed' and        *)
(* 'agents_update' replies carry no conversation event and are left out.   *)
(***************************************************************************)
DictRemove(d, k) == [x \in (DOMAIN d) \ {k} |-> d[x]]

\* type_mapping.get(event_type, event_type)
TypeMapping(event_type) ==
  CASE event_type = "blocker_report" -> "blocker"
    [] OTHER -> event_type

\* "if agent_filter:" is the truth value of filters.get('agentId'): a missing
\* key (None) and the empty string are false.
Truthy(value) == value # Absent /\ value # ""

\* Variant of ShouldEmitToClient that lets through only the listed types.
ShouldEmitToClient_ClosedWorld(event, filters) ==
  IF /\ Truthy(filters.agentId)
     /\ event.source # filters.agentId
     /\ event.target # filters.agentId
  THEN FALSE
  ELSE LET filter_key == TypeMapping(event.event_type)
       IN filter_key \in DOMAIN filters.types /\ filters.types[filter_key]

\* should_emit_to_client
ShouldEmitToClient(event, filters) ==
  IF /\ Truthy(filters.agentId)
     /\ event.source # filters.agentId
     /\ event.target # filters.agentId
  THEN FALSE
  ELSE LET filter_key == TypeMapping(event.event_type)
       IN ~(filter_key \in DOMAIN filters.types /\ ~filters.types[filter_key])

\* handle_connect
HandleConnect(c) ==
  /\ c \notin ws.connected_clients
  /\ ws' = [ws EXCEPT !.connected_clients = @ \cup {c}]
  /\ UNCHANGED nonWsVars

\* handle_disconnect
HandleDisconnect(c) ==
  /\ c \in ws.connected_clients
  /\ ws' = [ws EXCEPT !.connected_clients = @ \ {c},
                      !.client_filters = DictRemove(@, c),
                      !.latest[c] = NoSubscription]
  /\ UNCHANGED nonWsVars

\* Variant of handle_subscribe that keeps the filter a client already has.
HandleSubscribe_KeepsFirstFilter(c, filters) ==
  /\ c \in ws.connected_clients
  /\ ws' = [ws EXCEPT !.client_filters = IF c \in DOMAIN @ THEN @
                                         ELSE DictPut(@, c, filters),
                      !.latest[c] = filters]
  /\ UNCHANGED nonWsVars

\* handle_subscribe: client_filters[client_id] = data.get('filters', {})
HandleSubscribe(c, filters) ==
  /\ c \in ws.connected_clients
  /\ ws' = [ws EXCEPT !.client_filters = DictPut(@, c, filters),
                      !.latest[c] = filters]
  /\ UNCHANGED nonWsVars

\* handle_unsubscribe
HandleUnsubscribe(c) ==
  /\ c \in ws.connected_clients
  /\ ws' = [ws EXCEPT !.client_filters = DictRemove(@, c),
                      !.latest[c] = NoSubscription]
  /\ UNCHANGED nonWsVars

\* handle_new_conversation: 'conversation' to the room of every client whose
\* stored filter lets the event through, and 'marcus_thinking' broadcast for
\* a pm_thinking event.
HandleNewConversation(e) ==
  /\ ws' = [ws EXCEPT !.sent =
              [event |-> e,
               rooms |-> {c \in DOMAIN ws.client_filters :
                            ShouldEmitToClient(e, ws.client_filters[c])},
               thinking |-> e.event_type = "pm_thinking"]]
  /\ UNCHANGED nonWsVars

WsNext ==
  \/ \E c \in Clients : HandleConnect(c)
  \/ \E c \in Clients : HandleDisconnect(c)
  \/ \E c \in Clients, f \in FilterInputs : HandleSubscribe(c, f)
  \/ \E c \in Clients : HandleUnsubscribe(c)
  \/ \E e \in WsEvents : HandleNewConversation(e)

SpecWs == Init /\ [][WsNext]_vars

\* C20: when an event is dispatched, a client is sent the event exactly when
\* it has subscribed, has not unsubscribed or disconnected since, and the
\* event passes the filter of its last subscribe message; a client that
\* subscribed without a filter is sent every event.
C20_LatestFilterDecides ==
  [][\A e \in WsEvents :
       HandleNewConversation(e) =>
         \A c \in Clients :
           /\ (c \in ws'.sent.rooms) <=>
                (ws.latest[c].subscribed /\ ShouldEmitToClient(e, ws.latest[c]))
           /\ ws.latest[c] = NoFilter => c \in ws'.sent.rooms]_vars

\* C20 witness: agentA's message was sent to s1 only; s1 filters on agentA,
\* s2 is connected but holds no subscription.
C20_Witness ==
  /\ ws.sent.event.source = "agentA"
  /\ ws.sent.rooms = {"s1"}
  /\ ws.latest["s1"].subscribed /\ ws.latest["s1"].agentId = "agentA"
  /\ "s2" \in ws.connected_clients /\ ~ws.latest["s2"].subscribed

\* The type key of an event in a types map: blocker reports are listed under
\* "blocker", every other type under its own name.
MappedTypeKey(e) == IF e.event_type = "blocker_report" THEN "blocker" ELSE e.event_type
TypesAllow(e, f) == MappedTypeKey(e) \notin DOMAIN f.types \/ f.types[MappedTypeKey(e)]

\* C21 (as stated): at every dispatch the event is sent to a stored filter
\* exactly when (the filter has no agentId key, or its agentId is the event's
\* source or target) and the types map allows the event's type key.
C21_MatchesAsSpecified ==
  [][\A e \in WsEvents :
       HandleNewConversation(e) =>
         \A c \in DOMAIN ws.client_filters :
           LET f == ws.client_filters[c] IN
           (c \in ws'.sent.rooms) <=>
             /\ (f.agentId = Absent \/ f.agentId \in {e.source, e.target})
             /\ TypesAllow(e, f)]_vars

\* C21 (amended): as above, where a filter whose agentId is the empty string
\* counts as a filter without agentId.
C21_MatchesWithEmptyAgentId ==
  [][\A e \in WsEvents :
       HandleNewConversation(e) =>
         \A c \in DOMAIN ws.client_filters :
           LET f == ws.client_filters[c] IN
           (c \in ws'.sent.rooms) <=>
             /\ (f.agentId \in {Absent, ""} \/ f.agentId \in {e.source, e.target})
             /\ TypesAllow(e, f)]_vars

\* C21 witness: a blocker report from agentB was sent to s1, whose agentId is
\* the empty string, and not to s2, whose types map switches blocker off.
C21_Witness ==
  /\ ws.sent.event.event_type = "blocker_report"
  /\ ws.sent.rooms = {"s1"}
  /\ "s1" \in DOMAIN ws.client_filters /\ ws.client_filters["s1"].agentId = ""
  /\ "s2" \in DOMAIN ws.client_filters
  /\ "blocker" \in DOMAIN ws.client_filters["s2"].types

(***************************************************************************)
(* More of the store used by one process (specification Spec).  The clock  *)
(* counts hours: clear_old_events takes hours, and the retention window of *)
(* get_active_flows, 60 minutes, is one tick.                              *)
(***************************************************************************)
\* "age_minutes < 60", in hours.
RetentionHours == 1

\* The keys of data["flows"], listed once each.
FlowKeys == <<"f1", "f2">>

\* Variant of IsRecent that still shows a flow completed a full window ago.
IsRecent_Inclusive(flow_data, t) ==
  flow_data.completed_at = NoTime \/ t - flow_data.completed_at <= RetentionHours

\* get_active_flows: is_recent
IsRecent(flow_data, t) ==
  flow_data.completed_at = NoTime \/ t - flow_data.completed_at < RetentionHours

\* get_active_flows at time t: one entry per flow that passes
\* "flow_data.get('is_active', False) or is_recent".
GetActiveFlows(f, t) ==
  LET data == ReadEvents(f)
      Shown(x) == /\ x \in DOMAIN data.flows
                  /\ (data.flows[x].is_active \/ IsRecent(data.flows[x], t))
      ids == SelectSeq(FlowKeys, Shown)
      flow_events(x) == FlowEventsOf(data, x)
  IN [i \in 1..Len(ids) |->
        [id |-> ids[i],
         project_name |-> data.flows[ids[i]].project_name,
         started_at |-> data.flows[ids[i]].started_at,
         event_count |-> Len(flow_events(ids[i])),
         current_stage |-> IF flow_events(ids[i]) = <<>> THEN Absent
                           ELSE flow_events(ids[i])[Len(flow_events(ids[i]))].stage]]

\* C22 (as stated): complete_flow on a flow that is already completed leaves
\* the stored document, completed_at included, as it was.
C22_CompleteFlowIdempotent ==
  [][\A f \in FlowIds :
       (CompleteFlow(f) /\ FlowCompleted(f)) => file' = file]_vars

\* How often flow x is listed by get_active_flows now.
TimesListed(x) ==
  Cardinality({i \in DOMAIN GetActiveFlows(file, now) :
                 GetActiveFlows(file, now)[i].id = x})

\* C24: get_active_flows lists a stored flow once when it is active or was
\* completed less than the retention window ago, and does not list it when it
\* is inactive and was completed a full window ago or earlier.
C24_ActiveOrRecentlyCompleted ==
  \A x \in FlowIds :
    TimesListed(x) =
      (IF /\ FlowKnown(x)
          /\ \/ StoredFlows[x].is_active
             \/ /\ StoredFlows[x].completed_at # NoTime
                /\ now - StoredFlows[x].completed_at < RetentionHours
       THEN 1 ELSE 0)

\* C24 witness: f1 was completed one window ago and is not listed, f2 was
\* completed just now and is listed, with its events counted.
C24_Witness ==
  /\ FlowCompleted("f1") /\ now - StoredFlows["f1"].completed_at = RetentionHours
  /\ FlowCompleted("f2") /\ StoredFlows["f2"].completed_at = now
  /\ Len(GetActiveFlows(file, now)) = 1
  /\ GetActiveFlows(file, now)[1].id = "f2"
  /\ GetActiveFlows(file, now)[1].event_count > 0

\* C25 (as stated): clear_old_events keeps exactly the flows whose started_at
\* is not earlier than the cutoff (a flow started at the cutoff is kept),
\* unchanged, and exactly the events of those flows, in their order.
C25_PruneRemovesOnlyOlder ==
  [][\A h \in HoursInputs :
       ClearOldEvents(h) =>
         LET data == ReadEvents(file)
             kept == {x \in DOMAIN data.flows : data.flows[x].started_at >= now - h}
             OfKept(e) == e.flow_id \in kept
         IN /\ DOMAIN ReadEvents(file').flows = kept
            /\ \A x \in kept : ReadEvents(file').flows[x] = data.flows[x]
            /\ ReadEvents(file').events = SelectSeq(data.events, OfKept)]_vars

(***************************************************************************)
(* Event ids: one process appending to one flow, with event dicts that     *)
(* leave event_id out, bring an id of their own (a uuid, as                *)
(* pipeline_manager does), or bring an id in the form of the sequential    *)
(* ones.  The id f"{flow_id}_{n}" is the pair <<flow_id, n>>.              *)
(***************************************************************************)
IdFlow == "f1"
IdEventInputs ==
  { PlainEvent,
    [PlainEvent EXCEPT !.event_id = <<"uuid", 0>>],
    [PlainEvent EXCEPT !.event_id = <<IdFlow, 1>>] }

IdNext ==
  \/ Tick
  \/ \E n \in ProjectNames : AddFlow(IdFlow, n)
  \/ \E e \in IdEventInputs : AddEvent(IdFlow, e)
  \/ CompleteFlow(IdFlow)

SpecIds == Init /\ [][IdNext]_vars

\* C23 (as stated): the event_id values of the events of one flow are
\* pairwise distinct.
C23_EventIdsDistinct ==
  \A f \in FlowIds :
    \A i, j \in 1..Len(GetFlowEvents(file, f)) :
      i # j => GetFlowEvents(file, f)[i].event_id # GetFlowEvents(file, f)[j].event_id

(***************************************************************************)
(* The store file going missing or bad: one writer process, one replay     *)
(* controller built in another process, and the file being deleted or a    *)
(* write being cut short from outside.                                     *)
(***************************************************************************)
HandleFlow == "f1"

\* The events file is deleted (the logs directory is cleaned).
FileRemoved ==
  /\ file.kind = "doc"
  /\ file' = FileMissing
  /\ UNCHANGED <<now, last, proc, appended, nonStoreVars>>

\* A json.dump is cut short (the writing process is killed): the text left
\* in the file does not parse.
WriteInterrupted ==
  /\ file.kind = "doc"
  /\ file' = FileCorrupt(file.doc)
  /\ UNCHANGED <<now, last, proc, appended, nonStoreVars>>

HandleNext ==
  \/ FileRemoved
  \/ WriteInterrupted
  \/ \E n \in ProjectNames : AddFlow(HandleFlow, n)
  \/ AddEvent(HandleFlow, PlainEvent)
  \/ CompleteFlow(HandleFlow)
  \/ \E c \in SoloControllers : RcHandleCheck(c)
  \/ \E c \in SoloControllers : RcHandleWrite(c)
  \/ \E c \in SoloControllers : RcConstruct(c, HandleFlow)
  \/ \E c \in SoloControllers : RcStepForward(c)
  \/ \E c \in SoloControllers : RcStepBack(c)
  \/ \E c \in SoloControllers, p \in SeekInputs : RcSeekTo(c, p)

SpecHandle == Init /\ [][HandleNext]_vars

\* C26: while the file is missing or does not parse, a read gives the empty
\* document, get_flow_events gives no events and get_active_flows no flows;
\* add_flow on a missing file creates the file, holding that flow.
C26_FailOpenRead ==
  /\ [](file.kind # "doc" =>
          /\ ReadEvents(file) = EmptyDoc
          /\ \A f \in FlowIds : GetFlowEvents(file, f) = <<>>
          /\ GetActiveFlows(file, now) = <<>>)
  /\ [][\A n \in ProjectNames :
          (AddFlow(HandleFlow, n) /\ file.kind = "missing") =>
            (file'.kind = "doc" /\ DOMAIN ReadEvents(file').flows = {HandleFlow})]_vars

\* C26 witness: the file held a flow with events when a write was cut short,
\* and a call has been made on the damaged file since.
C26_Witness ==
  /\ file.kind = "corrupt"
  /\ Len(file.doc.events) > 0
  /\ \E c \in SoloControllers : rc[c].built /\ rc[c].events = <<>>

\* C27 (as stated): no step of a controller, its construction included,
\* changes what the store holds.
C27_ControllerLeavesStore ==
  [][rc' # rc => ReadEvents(file') = ReadEvents(file)]_vars

(***************************************************************************)
(* Two replay controllers over one flow while the store goes on changing:  *)
(* events appended, the flow completed, old flows pruned.                  *)
(***************************************************************************)
SnapshotFlow == "f1"

\* Positions handed to seek_to here: one in range of two events, one not.
SnapshotSeeks == {1, MaxEvents}

SnapshotNext ==
  \/ \E n \in ProjectNames : AddFlow(SnapshotFlow, n)
  \/ AddEvent(SnapshotFlow, PlainEvent)
  \/ CompleteFlow(SnapshotFlow)
  \/ \E h \in HoursInputs : ClearOldEvents(h)
  \/ \E c \in Controllers : RcConstruct(c, SnapshotFlow)
  \/ \E c \in Controllers : RcStepForward(c)
  \/ \E c \in Controllers : RcStepBack(c)
  \/ \E c \in Controllers, p \in SnapshotSeeks : RcSeekTo(c, p)

SpecSnapshot == Init /\ [][SnapshotNext]_vars

\* C28: once a controller is constructed, its events and their number N never
\* change; a change of the store (append, completion, pruning) leaves the
\* controller, its current event and its visible events as they were.
C28_SnapshotFixed ==
  [][\A c \in Controllers :
       rc[c].built =>
         /\ rc'[c].built
         /\ rc'[c].events = rc[c].events
         /\ rc'[c].max_position = rc[c].max_position
         /\ file' # file =>
              /\ rc'[c] = rc[c]
              /\ GetCurrentEvent(rc[c])' = GetCurrentEvent(rc[c])
              /\ VisibleEvents(rc[c])' = VisibleEvents(rc[c])
              /\ IsAtEnd(rc[c])' = IsAtEnd(rc[c])]_vars

\* C28 witness: a controller still holds the events it loaded after the
\* store gained an event, and also after the flow was pruned from the store.
C28_Witness ==
  /\ rc["c1"].built /\ rc["c2"].built
  /\ Len(rc["c1"].events) = 1
  /\ Len(rc["c2"].events) = 2
  /\ GetFlowEvents(file, SnapshotFlow) = <<>>
  /\ GetCurrentEvent(rc["c1"]) # <<>>

\* C29: no step changes two controllers at once, so a move of one
\* controller's cursor leaves the other controller as it was.
C29_CursorsIndependent ==
  [][\A c, d \in Controllers :
       c # d => (rc'[c] = rc[c] \/ rc'[d] = rc[d])]_vars

\* C29 witness: two controllers over the same events, one moved, the other
\* still at the start.
C29_Witness ==
  /\ rc["c1"].built /\ rc["c2"].built
  /\ rc["c1"].flow_id = rc["c2"].flow_id
  /\ rc["c1"].events = rc["c2"].events
  /\ rc["c1"].current_position = 1
  /\ rc["c1"].ret = [op |-> "seek_to", ok |-> TRUE]
  /\ rc["c2"].current_position = 0

(***************************************************************************)
(* Two processors reading one static log file from offset 0, each in its   *)
(* own time: _process_log_file, _process_log_line, _parse_log_entry and    *)
(* _parse_simple_event, with the event's fields spelled out.               *)
(***************************************************************************)
\* data.get(key, default)
Get(data, key, default) == IF data[key] = Absent THEN default ELSE data[key]

\* Variant of EventTimestamp that stamps every event with the time of parsing.
EventTimestamp_AlwaysNow(data, clock) ==
  IF data.timestamp = BadTime THEN BadTime ELSE clock

\* datetime.fromisoformat(data.get('timestamp', datetime.now().isoformat()))
EventTimestamp(data, clock) ==
  IF data.timestamp = NoTime THEN clock ELSE data.timestamp

\* _parse_simple_event
ParseSimpleEvent(data, timestamp, counter) ==
  LET event_type == Get(data, "type", "unknown")
      source == CASE event_type = "ping_request" -> Get(data, "source", "mcp_client")
                  [] event_type = "ping_response" -> "marcus"
                  [] OTHER -> Get(data, "source", "unknown")
      target == CASE event_type = "ping_request" -> "marcus"
                  [] event_type = "ping_response" -> "mcp_client"
                  [] OTHER -> Get(data, "target", "unknown")
      message == CASE data.message # Absent -> <<data.message>>
                   [] event_type = "ping_request" -> <<"Ping: ", Get(data, "echo", "pong")>>
                   [] event_type = "ping_response" -> <<"Pong: ", Get(data, "echo", "pong")>>
                   [] OTHER -> <<"json", data.source, data.target, data.echo>>
  IN [id |-> <<"event", counter>>, timestamp |-> timestamp, source |-> source,
      target |-> target, event_type |-> event_type, message |-> message,
      metadata |-> data]

\* _parse_log_entry after the counter and the timestamp: the simple format
\* gives an event, a legacy entry with an event name no parser handles None.
ParseLogEntry(data, timestamp, counter) ==
  IF data.type # Absent /\ data.event = Absent
  THEN <<ParseSimpleEvent(data, timestamp, counter)>>
  ELSE <<>>

\* One iteration of "async for line in f" in one processor.  json.loads
\* failing skips the line; fromisoformat failing ends the pass, after the
\* counter was raised and before the offset is stored.
TwinProcessLogLine(i) ==
  LET me == twin.inst[i]
      data == twin.log[me.cursor + 1]
      counter == me.event_counter + 1
      timestamp == EventTimestamp(data, now)
  IN /\ ~me.pass_over
     /\ me.cursor < Len(twin.log)
     /\ twin' = [twin EXCEPT !.inst[i] =
                   IF ~data.json
                   THEN [me EXCEPT !.cursor = @ + 1]
                   ELSE IF timestamp = BadTime
                   THEN [me EXCEPT !.event_counter = counter, !.pass_over = TRUE]
                   ELSE [me EXCEPT !.cursor = @ + 1, !.event_counter = counter,
                                   !.conversation_history =
                                       @ \o ParseLogEntry(data, timestamp, counter)]]
     /\ UNCHANGED <<storeVars, tailVars, replayVars, wsVars, loopVars, stopVars>>

\* The end of the file: self._file_positions[str(file_path)] = await f.tell()
TwinProcessLogFileEnd(i) ==
  /\ ~twin.inst[i].pass_over
  /\ twin.inst[i].cursor = Len(twin.log)
  /\ twin' = [twin EXCEPT !.inst[i].pass_over = TRUE,
                          !.inst[i].file_position = Len(twin.log)]
  /\ UNCHANGED <<storeVars, tailVars, replayVars, wsVars, loopVars, stopVars>>

\* The file was written before either processor was started.
StaticLogs == UNION { [1..n -> StaticLines] : n \in 1..MaxLines }

TwinStart ==
  /\ file = FileDoc(EmptyDoc)
  /\ now = 0
  /\ last = NoCall
  /\ proc = [p \in Procs |-> IdleProc]
  /\ appended = [f \in FlowIds |-> <<>>]
  /\ TailInit
  /\ ReplayInit
  /\ WsInit
  /\ LoopInit
  /\ StopInit
  /\ twin \in { [log |-> l, inst |-> [i \in Instances |-> NewProcessor]] :
                  l \in StaticLogs }

TwinNext ==
  \/ Tick
  \/ \E i \in Instances : TwinProcessLogLine(i)
  \/ \E i \in Instances : TwinProcessLogFileEnd(i)

SpecTwin == TwinStart /\ [][TwinNext]_vars

EventsOf(i) == twin.inst[i].conversation_history

\* C30 (as stated): two processors that have both gone through the file hold
\* identical event sequences, timestamps included.
C30_IdenticalSequences ==
  \A i, j \in Instances :
    (twin.inst[i].pass_over /\ twin.inst[j].pass_over) => EventsOf(i) = EventsOf(j)

\* C30 (amended): the two sequences have the same number of events once both
\* passes are over, and at every index the events agree on id, source,
\* target, event_type, message and metadata, and on the timestamp when the
\* line carries one; for a line without a timestamp each processor has the
\* time at which it parsed the line.
C30_SameExceptDefaultedTimestamps ==
  \A i, j \in Instances :
    /\ (twin.inst[i].pass_over /\ twin.inst[j].pass_over) =>
          Len(EventsOf(i)) = Len(EventsOf(j))
    /\ \A k \in 1..Min(Len(EventsOf(i)), Len(EventsOf(j))) :
         /\ [EventsOf(i)[k] EXCEPT !.timestamp = 0] = [EventsOf(j)[k] EXCEPT !.timestamp = 0]
         /\ EventsOf(i)[k].metadata.timestamp # NoTime =>
              EventsOf(i)[k].timestamp = EventsOf(j)[k].timestamp

\* C30 witness: both processors are through a file with a stamped line and an
\* unstamped one, read at different times.
C30_Witness ==
  /\ twin.inst["t1"].pass_over /\ twin.inst["t2"].pass_over
  /\ Len(EventsOf("t1")) = 2
  /\ EventsOf("t1")[1].metadata.timestamp # NoTime
  /\ EventsOf("t1")[2].metadata.timestamp = NoTime
  /\ EventsOf("t1")[2].timestamp # EventsOf("t2")[2].timestamp

(***************************************************************************)
(* The history buffer filled beyond max_history_size: _process_log_line    *)
(* called on line after line, without the file layer and without handlers. *)
(***************************************************************************)
\* _process_log_line on a line that parses to an event.
HistoryEventLine ==
  /\ tailer.event_counter < MaxHistorySize + HistoryOverrun
  /\ LET id == tailer.event_counter + 1
     IN /\ tailer' = [tailer EXCEPT !.event_counter = id,
                                    !.conversation_history = HistoryAppend(@, id)]
        /\ delivered' = Append(delivered, [file |-> StreamFile, line |-> id, id |-> id])
  /\ UNCHANGED <<logs, pending, queue, racy, invoked, nonTailVars>>

\* _process_log_line on a line for which _parse_log_entry returns None:
\* the counter is raised and nothing is appended.
HistoryNoEventLine ==
  /\ tailer.event_counter < HistoryOverrun
  /\ tailer' = [tailer EXCEPT !.event_counter = @ + 1]
  /\ UNCHANGED <<logs, pending, queue, delivered, racy, invoked, nonTailVars>>

HistoryNext ==
  \/ HistoryEventLine
  \/ HistoryNoEventLine

SpecHistory == Init /\ [][HistoryNext]_vars

\* The ids of the events parsed so far, in parse order.
ParsedIds == [k \in 1..Len(delivered) |-> delivered[k].id]

\* C31: the history never holds more than max_history_size events, and it is
\* the last min(parsed, max_history_size) parsed events in parse order.
C31_HistoryIsNewestWindow ==
  LET history == tailer.conversation_history
      n == Len(delivered)
  IN /\ Len(history) <= MaxHistorySize
     /\ Len(history) = Min(n, MaxHistorySize)
     /\ history = SubSeq(ParsedIds, n - Len(history) + 1, n)

\* C31 witness: more events than the capacity were parsed and the oldest
\* ones are gone from the history.
C31_Witness ==
  /\ Len(delivered) = MaxHistorySize + 1
  /\ Len(tailer.conversation_history) = MaxHistorySize
  /\ tailer.conversation_history[1] = delivered[2].id
  /\ tailer.conversation_history[MaxHistorySize] = delivered[MaxHistorySize + 1].id

(***************************************************************************)
(* The queries of a replay controller over a flow whose events have the    *)
(* types of the pipeline: find_decision_points, find_key_events and        *)
(* get_timeline_data.                                                      *)
(***************************************************************************)
QueryFlow == "f1"

\* The event types appended: three of key_event_types and one that is not.
QueryEventTypes ==
  {"ai_prd_analysis", "tasks_generated", "task_created", "decision_point"}
QueryEventInputs == { [PlainEvent EXCEPT !.event_type = t] : t \in QueryEventTypes }

\* key_event_types of find_key_events
KeyEventTypes ==
  {"decision_point", "ai_prd_analysis", "tasks_generated", "quality_metrics",
   "performance_metrics"}

\* Variant of PositionsOf that counts the events from one.
PositionsOf_FromOne(events, event_type) ==
  SelectSeq([i \in 1..Len(events) |-> i],
            LAMBDA p : events[p].event_type = event_type)

\* "for i, event in enumerate(self.events): if event_type matches: append(i)"
PositionsOf(events, event_type) ==
  SelectSeq([i \in 1..Len(events) |-> i - 1],
            LAMBDA p : events[p + 1].event_type = event_type)

\* find_decision_points
FindDecisionPoints(c) == PositionsOf(c.events, "decision_point")

\* find_key_events: every key of key_event_types is in the result.
FindKeyEvents(c) == [t \in KeyEventTypes |-> PositionsOf(c.events, t)]

\* One clock unit in milliseconds.
MsPerTick == 3600000

\* Variant of GetTimelineData that numbers the entries from one.
GetTimelineData_FromOne(c) ==
  [i \in 1..Len(c.events) |->
     [position |-> i, timestamp |-> c.events[i].timestamp,
      relative_ms |-> IF i = 1 THEN 0
                      ELSE (c.events[i].timestamp - c.events[1].timestamp) * MsPerTick,
      event_type |-> c.events[i].event_type, stage |-> c.events[i].stage]]

\* get_timeline_data
GetTimelineData(c) ==
  [i \in 1..Len(c.events) |->
     [position |-> i - 1, timestamp |-> c.events[i].timestamp,
      relative_ms |-> IF i = 1 THEN 0
                      ELSE (c.events[i].timestamp - c.events[1].timestamp) * MsPerTick,
      event_type |-> c.events[i].event_type, stage |-> c.events[i].stage]]

QueryNext ==
  \/ Tick
  \/ \E n \in ProjectNames : AddFlow(QueryFlow, n)
  \/ \E e \in QueryEventInputs : AddEvent(QueryFlow, e)
  \/ \E c \in SoloControllers : RcConstruct(c, QueryFlow)

SpecQueries == Init /\ [][QueryNext]_vars

TypesOf(events) == [i \in 1..Len(events) |-> events[i].event_type]
ScenarioTypes == <<"ai_prd_analysis", "tasks_generated", "task_created">>

\* C32 (as stated): for events of types [ai_prd_analysis, tasks_generated,
\* task_created], find_key_events is exactly the two-entry map
\* {ai_prd_analysis: [0], tasks_generated: [1]} and find_decision_points
\* is []; each list holds the positions of its type in increasing order.
C32_KeyEventsOnlyOccurring ==
  \A c \in Controllers :
    (rc[c].built /\ TypesOf(rc[c].events) = ScenarioTypes) =>
       /\ FindKeyEvents(rc[c]) =
            [t \in {"ai_prd_analysis", "tasks_generated"} |->
               IF t = "ai_prd_analysis" THEN <<0>> ELSE <<1>>]
       /\ FindDecisionPoints(rc[c]) = <<>>

\* C32 (amended): find_key_events has an entry for each of the five key
\* types, empty for a type that does not occur; each list holds, in
\* increasing order, exactly the positions of the events of its type.  For
\* [ai_prd_analysis, tasks_generated, task_created] the map is
\* ai_prd_analysis: [0], tasks_generated: [1] and [] for the three other
\* types, and find_decision_points is [].
C32_KeyEventsAllTypes ==
  \A c \in Controllers :
    rc[c].built =>
      LET events == rc[c].events
          found == FindKeyEvents(rc[c])
          Exact(list, t) ==
            /\ \A k \in 1..(Len(list) - 1) : list[k] < list[k + 1]
            /\ \A p \in 0..(Len(events) - 1) :
                 (\E k \in 1..Len(list) : list[k] = p) <=> events[p + 1].event_type = t
            /\ \A k \in 1..Len(list) : list[k] \in 0..(Len(events) - 1)
      IN /\ DOMAIN found = KeyEventTypes
         /\ \A t \in KeyEventTypes : Exact(found[t], t)
         /\ Exact(FindDecisionPoints(rc[c]), "decision_point")
         /\ TypesOf(events) = ScenarioTypes =>
              /\ found = [t \in KeyEventTypes |->
                            CASE t = "ai_prd_analysis" -> <<0>>
                              [] t = "tasks_generated" -> <<1>>
                              [] OTHER -> <<>>]
              /\ FindDecisionPoints(rc[c]) = <<>>

\* C32 witness: a controller over the three events of the scenario.
C32_Witness ==
  \E c \in Controllers : rc[c].built /\ TypesOf(rc[c].events) = ScenarioTypes

C34_ReadSeesWholeDocument ==
  [][\A p \in Procs :
       ProcTruncate(p) =>
         \/ ReadEvents(file') = ReadEvents(file)
         \/ ReadEvents(file') = proc[p].data]_vars

(***************************************************************************)
(* The order of the events a controller loads, against the order in which  *)
(* the store returns them.                                                 *)
(***************************************************************************)
\* C35 (as stated): the events a controller loads are the flow's events in
\* the order get_flow_events returns them, whatever their timestamps.
C35_SnapshotInAppendOrder ==
  [][\A c \in Controllers, f \in ReplayFlows :
       RcConstruct(c, f) => rc'[c].events = GetFlowEvents(file, f)]_vars

\* C35 (amended): the events a controller loads are the flow's events in
\* non-decreasing timestamp order, events of equal timestamp in append
\* order; they are in append order when the timestamps do not decrease in
\* append order.
C35_SnapshotInTimestampOrder ==
  [][\A c \in Controllers, f \in ReplayFlows :
       RcConstruct(c, f) =>
         LET stored == GetFlowEvents(file, f)
             loaded == rc'[c].events
             At(e) == CHOOSE k \in 1..Len(loaded) : loaded[k] = e
             Rising(q) == \A i, j \in 1..Len(q) : i < j => q[i].timestamp <= q[j].timestamp
         IN /\ Len(loaded) = Len(stored)
            /\ \A i \in 1..Len(stored) : \E k \in 1..Len(loaded) : loaded[k] = stored[i]
            /\ Rising(loaded)
            /\ \A i, j \in 1..Len(stored) :
                 (i < j /\ stored[i].timestamp <= stored[j].timestamp) =>
                   At(stored[i]) < At(stored[j])
            /\ Rising(stored) => loaded = stored]_vars

\* C35 witness: a controller that loaded three events, two of them with the
\* same timestamp, in another order than the store returns them.
C35_Witness ==
  \E c \in Controllers :
    /\ rc[c].built /\ Len(rc[c].events) = 3
    /\ Len(GetFlowEvents(file, rc[c].flow_id)) = 3
    /\ rc[c].events # GetFlowEvents(file, rc[c].flow_id)
    /\ rc[c].events[1].timestamp = rc[c].events[2].timestamp

(***************************************************************************)
(* A line that the producer writes with two writes, the tailer running.    *)
(***************************************************************************)
\* The producer writes the first part of a line (no newline yet).
ProducerWritesHead(f) ==
  /\ Len(logs[f]) < MaxLines
  /\ Len(logs[f]) > 0 => logs[f][Len(logs[f])].kind # "head"
  /\ logs' = [logs EXCEPT ![f] = Append(@, [kind |-> "head"])]
  /\ pending' = [pending EXCEPT ![f] = IF Observing THEN @ + 1 ELSE @]
  /\ racy' = [racy EXCEPT ![f] =
                @ \/ (Observing /\ (f \notin DOMAIN tailer.file_positions
                                    \/ tailer.pass.file = f))]
  /\ UNCHANGED <<queue, tailer, delivered, invoked, nonTailVars>>

\* The producer writes the rest of the line and its newline.
ProducerWritesRest(f) ==
  /\ Len(logs[f]) > 0
  /\ logs[f][Len(logs[f])].kind = "head"
  /\ logs' = [logs EXCEPT ![f] = Append(@, [kind |-> "rest"])]
  /\ pending' = [pending EXCEPT ![f] = IF Observing THEN @ + 1 ELSE @]
  /\ racy' = [racy EXCEPT ![f] =
                @ \/ (Observing /\ (f \notin DOMAIN tailer.file_positions
                                    \/ tailer.pass.file = f))]
  /\ UNCHANGED <<queue, tailer, delivered, invoked, nonTailVars>>

PartialNext ==
  \/ ProducerWritesHead(StreamFile)
  \/ ProducerWritesRest(StreamFile)
  \/ OnModified(StreamFile)
  \/ StartStreaming
  \/ ProcessExistingLogs
  \/ WhileRunning
  \/ ProcessQueue
  \/ ProcessLogLine
  \/ ProcessLogFileEnd

SpecPartial == Init /\ [][PartialNext]_vars

\* C36 (as stated): the stored offset of a file never lies beyond a line
\* whose second part is not written yet, and a line written in two parts has
\* been delivered, once, when the tailer has nothing left to read.
C36_PartialLineDeliveredOnce ==
  \A f \in LogFiles :
    /\ (Len(logs[f]) > 0 /\ logs[f][Len(logs[f])].kind = "head") =>
          FilePosition(tailer.file_positions, f) < Len(logs[f])
    /\ \A k \in 1..(Len(logs[f]) - 1) :
         (TailerAtRest /\ logs[f][k].kind = "head") =>
            Cardinality({n \in 1..Len(delivered) :
                           delivered[n].file = f /\ delivered[n].line = k}) = 1

(***************************************************************************)
(* The handler loop of _process_log_line taken one handler call at a time, *)
(* with add_event_handler and remove_event_handler called while a handler  *)
(* runs: by the handler itself, or by another task while an async handler  *)
(* is awaited.                                                             *)
(***************************************************************************)
\* A line has been parsed to an event: history, then "for handler in
\* self.event_handlers" starts at index 0 of the list.
LoopBegin ==
  /\ ~dispatching.active
  /\ tailer.event_counter < MaxLines
  /\ LET id == tailer.event_counter + 1
     IN /\ tailer' = [tailer EXCEPT !.event_counter = id,
                                    !.conversation_history = HistoryAppend(@, id)]
        /\ dispatching' = [active |-> TRUE, id |-> id, index |-> 0,
                           before |-> tailer.event_handlers, calls |-> <<>>]
  /\ UNCHANGED <<logs, pending, queue, delivered, racy, invoked,
                 storeVars, replayVars, wsVars, twinVars, stopVars>>

\* The list iterator: the element at the index in the list as it is now, or
\* the end of the loop when the index has reached the list's length.
NextHandler(handlers, index) ==
  IF index < Len(handlers) THEN <<handlers[index + 1]>> ELSE <<>>

\* One iteration: the handler at the iterator's index is called (what it
\* raises is caught) and the index moves on.
LoopCall ==
  /\ dispatching.active
  /\ NextHandler(tailer.event_handlers, dispatching.index) # <<>>
  /\ dispatching' =
       [dispatching EXCEPT
          !.calls = @ \o NextHandler(tailer.event_handlers, dispatching.index),
          !.index = @ + 1]
  /\ UNCHANGED <<tailVars, storeVars, replayVars, wsVars, twinVars, stopVars>>

\* The iterator is exhausted: _process_log_line returns.
LoopEnd ==
  /\ dispatching.active
  /\ NextHandler(tailer.event_handlers, dispatching.index) = <<>>
  /\ dispatching' = [dispatching EXCEPT !.active = FALSE]
  /\ UNCHANGED <<tailVars, storeVars, replayVars, wsVars, twinVars, stopVars>>

LoopNext ==
  \/ \E h \in HandlerIds : AddEventHandler(h)
  \/ \E h \in HandlerIds : RemoveEventHandler(h)
  \/ LoopBegin
  \/ LoopCall
  \/ LoopEnd

SpecLoop == Init /\ [][LoopNext]_vars

Occurrences(seq, h) == Cardinality({i \in 1..Len(seq) : seq[i] = h})

\* C37 (as stated): when the dispatch of an event ends, every handler that
\* was registered (once) when it began and is still registered (once) has
\* been called exactly once for the event, whatever was added or removed
\* in between.
C37_RemainingHandlersCalledOnce ==
  [][LoopEnd =>
       \A h \in HandlerIds :
         (Occurrences(dispatching.before, h) = 1
            /\ Occurrences(tailer.event_handlers, h) = 1) =>
           Occurrences(dispatching.calls, h) = 1]_vars

(***************************************************************************)
(* What a subscriber receives of an event that its filter rejects.         *)
(***************************************************************************)
\* C38 (as stated): when an event is dispatched, a subscriber whose stored
\* filter rejects it is sent nothing that carries the event: neither the
\* 'conversation' message nor the 'marcus_thinking' message with its text.
C38_RejectedSubscriberGetsNothing ==
  [][\A e \in WsEvents :
       HandleNewConversation(e) =>
         \A c \in DOMAIN ws.client_filters :
           ~ShouldEmitToClient(e, ws.client_filters[c]) =>
             /\ c \notin ws'.sent.rooms
             /\ ~(ws'.sent.thinking /\ c \in ws.connected_clients)]_vars

(***************************************************************************)
(* stop_streaming called before start_streaming has taken its first step.  *)
(***************************************************************************)
\* C39 (as stated): when the last stop_streaming call came before
\* start_streaming was entered, start_streaming, once entered, returns.
C39_EarlyStopNotLost ==
  (stopped_at = "init" /\ Streaming) ~> (tailer.pc = "returned")

(***************************************************************************)
(* get_current_state at the two ends of a flow that has events.            *)
(***************************************************************************)
\* C40 (as stated): over N > 0 events is_at_end is true exactly at position
\* N - 1 and is_at_start exactly at position 0.
C40_EndFlagsAtTheEnds ==
  \A c \in Controllers :
    (rc[c].built /\ Len(rc[c].events) > 0) =>
       /\ IsAtEnd(rc[c]) <=> (rc[c].current_position = Len(rc[c].events) - 1)
       /\ IsAtStart(rc[c]) <=> (rc[c].current_position = 0)
====
